---- MODULE Spec2Model ----
(***************************************************************************)
(* Model of the intel-pstate crate (src/src/lib.rs): a handle on the       *)
(* intel_pstate sysfs directory with typed getters and setters for four    *)
(* parameter files.                                                        *)
(*                                                                         *)
(* A file's text is a sequence of one-character strings, so that Display   *)
(* formatting, str::trim and str::parse are computed and not assumed.      *)
(* The file system is the environment: a file is absent or present, holds  *)
(* a text and grants the process an access level ("none" < "r" < "rw");    *)
(* for an absent file the level says whether File::create may create it.   *)
(***************************************************************************)
EXTENDS Integers, Sequences, FiniteSets, TLC

VARIABLES dir, pstate, files, last

(* the call's name stands first, so that two states after calls of
   different methods already differ there and results of different types
   are never compared *)
vars == <<last.op, dir, pstate, files, last>>

----------------------------------------------------------------------------
(* Names of the parameter files, lib.rs:35-38 *)

HWP_DYNAMIC_BOOST == "hwp_dynamic_boost"
MAX_PERF_PCT == "max_perf_pct"
MIN_PERF_PCT == "min_perf_pct"
NO_TURBO == "no_turbo"

Fields == {HWP_DYNAMIC_BOOST, MAX_PERF_PCT, MIN_PERF_PCT, NO_TURBO}

(* u8::MAX, the range of min_perf_pct / max_perf_pct (lib.rs:63,65) *)
U8Max == 255

U8 == 0..U8Max

----------------------------------------------------------------------------
(* Texts *)

Digits == <<"0", "1", "2", "3", "4", "5", "6", "7", "8", "9">>

DigitChars == {Digits[i] : i \in 1..10}

DigitValue(c) == (CHOOSE i \in 1..10 : Digits[i] = c) - 1

(* a byte that is not valid UTF-8 *)
BadByte == "<ff>"

Whitespace == {" ", "\n", "\t"}

(* Result<T, E> *)
Ok(v) == [ok |-> TRUE, val |-> v]

Err(e) == [ok |-> FALSE, err |-> e]

(* io::Error, by its ErrorKind *)
IoError(kind) == [kind |-> kind]

(* Display for u8: the decimal digits, no sign, no leading zero *)
RECURSIVE u8_to_string(_)
u8_to_string(v) ==
  IF v < 10 THEN <<Digits[v + 1]>>
  ELSE Append(u8_to_string(v \div 10), Digits[(v % 10) + 1])

(* Display for the &str literals "1" / "0" chosen from a bool *)
bool_to_string(b) == IF b THEN <<"1">> ELSE <<"0">>

RECURSIVE trim_start(_)
trim_start(s) ==
  IF s # <<>> /\ Head(s) \in Whitespace THEN trim_start(Tail(s)) ELSE s

RECURSIVE trim_end(_)
trim_end(s) ==
  IF s # <<>> /\ s[Len(s)] \in Whitespace
  THEN trim_end(SubSeq(s, 1, Len(s) - 1))
  ELSE s

(* str::trim *)
trim(s) == trim_end(trim_start(s))

(* the digit loop of u8::from_str: checked multiply and add, left to right *)
RECURSIVE parse_digits(_, _)
parse_digits(s, acc) ==
  IF s = <<>> THEN Ok(acc)
  ELSE IF Head(s) \notin DigitChars THEN Err("InvalidDigit")
  ELSE IF acc * 10 + DigitValue(Head(s)) > U8Max THEN Err("PosOverflow")
  ELSE parse_digits(Tail(s), acc * 10 + DigitValue(Head(s)))

(* str::parse::<u8>: empty and a lone sign are errors, one leading "+" is
   accepted, "-" is not (unsigned) *)
parse_u8(s) ==
  IF s = <<>> THEN Err("Empty")
  ELSE IF Len(s) = 1 /\ Head(s) \in {"+", "-"} THEN Err("InvalidDigit")
  ELSE parse_digits(IF Head(s) = "+" THEN Tail(s) ELSE s, 0)

----------------------------------------------------------------------------
(* Files *)

Access == {"none", "r", "rw"}

File(access, text) == [exists |-> TRUE, access |-> access, text |-> text]

Absent(access) == [exists |-> FALSE, access |-> access, text |-> <<>>]

(* fs::read_to_string *)
read_to_string(f) ==
  IF ~f.exists THEN Err(IoError("NotFound"))
  ELSE IF f.access = "none" THEN Err(IoError("PermissionDenied"))
  ELSE IF \E i \in 1..Len(f.text) : f.text[i] = BadByte THEN Err(IoError("InvalidData"))
  ELSE Ok(f.text)

(* parse_file with the parse failure turned into a default value *)
parse_file_defaulting(f) ==
  LET r == read_to_string(f) IN
  IF ~r.ok THEN Ok(0)
  ELSE LET p == parse_u8(trim(r.val)) IN
       IF p.ok THEN p ELSE Ok(0)

(* parse_file::<u8>, lib.rs:196-204 *)
parse_file(f) ==
  LET r == read_to_string(f) IN
  IF ~r.ok THEN r
  ELSE LET p == parse_u8(trim(r.val)) IN
       IF p.ok THEN p ELSE Err(IoError("InvalidData"))

(* File::create: truncate an existing writable file, create an absent one *)
create(f) ==
  IF f.access = "rw" THEN Ok(File("rw", <<>>)) ELSE Err(IoError("PermissionDenied"))

(* a write_value that opens the file without truncating it: the text
   overwrites the start of the old contents *)
write_value_no_truncate(f, text) ==
  IF f.access # "rw" THEN {[res |-> Err(IoError("PermissionDenied")), file |-> f]}
  ELSE {[res |-> Ok(<<>>),
         file |-> File("rw", text \o SubSeq(f.text, Len(text) + 1, Len(f.text)))]}

(* write_value, lib.rs:207-209: the outcomes of create followed by write!.
   A failed create leaves the file alone; a write that fails after the
   create leaves a proper prefix of the text in the truncated file. *)
write_value(f, text) ==
  LET c == create(f) IN
  IF ~c.ok THEN {[res |-> c, file |-> f]}
  ELSE {[res |-> Ok(<<>>), file |-> File("rw", text)]}
       \cup {[res |-> Err(IoError("Other")), file |-> File("rw", SubSeq(text, 1, n))] :
               n \in 0..(Len(text) - 1)}

----------------------------------------------------------------------------
(* PStateError, lib.rs:40-56 *)

GetValue(src, source) == [kind |-> "GetValue", src |-> src, source |-> source]

NotFound == [kind |-> "NotFound", src |-> "", source |-> IoError("")]

SetValue(src, source) == [kind |-> "SetValue", src |-> src, source |-> source]

(* PStateValues, lib.rs:58-67; an Option is the empty or the one-element sequence *)
PStateValues(boost, min, max, no_turbo) ==
  [hwp_dynamic_boost |-> boost, min_perf_pct |-> min,
   max_perf_pct |-> max, no_turbo |-> no_turbo]

----------------------------------------------------------------------------
(* PState, lib.rs:79-194.  fs is the contents of the intel_pstate directory:
   a function from file name to file. *)

DirKinds == {"absent", "file", "dir"}

(* PState::new with Path::exists in place of Path::is_dir *)
new_exists(d) == IF d # "absent" THEN Ok("PState") ELSE Err(NotFound)

(* PState::new, lib.rs:81-88 *)
new(d) == IF d = "dir" THEN Ok("PState") ELSE Err(NotFound)

(* PState::file, lib.rs:90-92: the file at path + name *)
file(fs, name) == fs[name]

(* the directory with the file at path + name replaced *)
store(fs, name, f) == [fs EXCEPT ![name] = f]

(* hwp_dynamic_boost without the existence check *)
hwp_dynamic_boost_unchecked(fs) ==
  LET r == parse_file(file(fs, HWP_DYNAMIC_BOOST)) IN
  IF r.ok THEN Ok(<<r.val = 1>>) ELSE Err(GetValue(HWP_DYNAMIC_BOOST, r.err))

(* PState::hwp_dynamic_boost, lib.rs:95-108 *)
hwp_dynamic_boost(fs) ==
  LET f == file(fs, HWP_DYNAMIC_BOOST) IN
  IF f.exists
  THEN LET r == parse_file(f) IN
       IF r.ok THEN Ok(<<r.val = 1>>) ELSE Err(GetValue(HWP_DYNAMIC_BOOST, r.err))
  ELSE Ok(<<>>)

(* the outcomes of one setter: write_value on the field's file, the error
   mapped to SetValue of that field *)
set_field(fs, name, text) ==
  {[res |-> IF o.res.ok THEN o.res ELSE Err(SetValue(name, o.res.err)),
    fs |-> store(fs, name, o.file)] : o \in write_value(file(fs, name), text)}

(* PState::set_hwp_dynamic_boost, lib.rs:111-118 *)
set_hwp_dynamic_boost(fs, boost) ==
  set_field(fs, HWP_DYNAMIC_BOOST, bool_to_string(boost))

(* PState::min_perf_pct, lib.rs:121-126 *)
min_perf_pct(fs) ==
  LET r == parse_file(file(fs, MIN_PERF_PCT)) IN
  IF r.ok THEN r ELSE Err(GetValue(MIN_PERF_PCT, r.err))

(* PState::set_min_perf_pct, lib.rs:129-134 *)
set_min_perf_pct(fs, min) == set_field(fs, MIN_PERF_PCT, u8_to_string(min))

(* PState::max_perf_pct, lib.rs:137-142 *)
max_perf_pct(fs) ==
  LET r == parse_file(file(fs, MAX_PERF_PCT)) IN
  IF r.ok THEN r ELSE Err(GetValue(MAX_PERF_PCT, r.err))

(* set_max_perf_pct writing the min_perf_pct file *)
set_max_perf_pct_wrong_file(fs, max) ==
  {[res |-> IF o.res.ok THEN o.res ELSE Err(SetValue(MAX_PERF_PCT, o.res.err)),
    fs |-> store(fs, MIN_PERF_PCT, o.file)] :
     o \in write_value(file(fs, MIN_PERF_PCT), u8_to_string(max))}

(* PState::set_max_perf_pct, lib.rs:145-150 *)
set_max_perf_pct(fs, max) == set_field(fs, MAX_PERF_PCT, u8_to_string(max))

(* no_turbo accepting only 1 as true and rejecting nothing *)
no_turbo_eq_one(fs) ==
  LET r == parse_file(file(fs, NO_TURBO)) IN
  IF r.ok THEN Ok(r.val = 1) ELSE Err(GetValue(NO_TURBO, r.err))

(* PState::no_turbo, lib.rs:153-160 *)
no_turbo(fs) ==
  LET r == parse_file(file(fs, NO_TURBO)) IN
  IF r.ok THEN Ok(r.val > 0) ELSE Err(GetValue(NO_TURBO, r.err))

(* set_no_turbo formatting the bool itself, which Display writes as a word *)
set_no_turbo_display(fs, no_turbo_) ==
  set_field(fs, NO_TURBO,
            IF no_turbo_ THEN <<"t", "r", "u", "e">> ELSE <<"f", "a", "l", "s", "e">>)

(* PState::set_no_turbo, lib.rs:163-170 *)
set_no_turbo(fs, no_turbo_) == set_field(fs, NO_TURBO, bool_to_string(no_turbo_))

(* values reading the optional field first *)
values_boost_first(fs) ==
  LET boost == hwp_dynamic_boost(fs)
      min == min_perf_pct(fs)
      max == max_perf_pct(fs)
      nt == no_turbo(fs)
  IN  IF ~boost.ok THEN boost
      ELSE IF ~min.ok THEN min
      ELSE IF ~max.ok THEN max
      ELSE IF ~nt.ok THEN nt
      ELSE Ok(PStateValues(boost.val, min.val, max.val, nt.val))

(* PState::values, lib.rs:173-182: the four gets in the order of the struct
   literal, each with ? *)
values(fs) ==
  LET min == min_perf_pct(fs)
      max == max_perf_pct(fs)
      nt == no_turbo(fs)
      boost == hwp_dynamic_boost(fs)
  IN  IF ~min.ok THEN min
      ELSE IF ~max.ok THEN max
      ELSE IF ~nt.ok THEN nt
      ELSE IF ~boost.ok THEN boost
      ELSE Ok(PStateValues(boost.val, min.val, max.val, nt.val))

(* one more setter of set_values: p is an outcome so far; the setter runs
   only if no earlier one has returned through ? *)
and_then(p, name, outcomes) ==
  {[res |-> o.res, fs |-> o.fs,
    calls |-> Append(p.calls, [field |-> name, res |-> o.res])] : o \in outcomes}

(* set_values with the failure of the optional field returned through ? *)
set_values_strict(fs, v) ==
  LET s0 == IF v.hwp_dynamic_boost # <<>>
            THEN and_then([calls |-> <<>>], HWP_DYNAMIC_BOOST,
                          set_hwp_dynamic_boost(fs, v.hwp_dynamic_boost[1]))
            ELSE {[res |-> Ok(<<>>), fs |-> fs, calls |-> <<>>]}
      s1 == UNION {IF ~p.res.ok THEN {p}
                   ELSE and_then(p, MIN_PERF_PCT, set_min_perf_pct(p.fs, v.min_perf_pct)) :
                   p \in s0}
      s2 == UNION {IF ~p.res.ok THEN {p}
                   ELSE and_then(p, MAX_PERF_PCT, set_max_perf_pct(p.fs, v.max_perf_pct)) :
                   p \in s1}
  IN  UNION {IF ~p.res.ok THEN {p}
             ELSE and_then(p, NO_TURBO, set_no_turbo(p.fs, v.no_turbo)) : p \in s2}

(* set_values that carries on after a failed mandatory setter and returns
   the first failure at the end *)
set_values_keep_going(fs, v) ==
  LET s0 == IF v.hwp_dynamic_boost # <<>>
            THEN and_then([calls |-> <<>>], HWP_DYNAMIC_BOOST,
                          set_hwp_dynamic_boost(fs, v.hwp_dynamic_boost[1]))
            ELSE {[res |-> Ok(<<>>), fs |-> fs, calls |-> <<>>]}
      s1 == UNION {and_then(p, MIN_PERF_PCT, set_min_perf_pct(p.fs, v.min_perf_pct)) :
                   p \in s0}
      s2 == UNION {{[q EXCEPT !.res = IF p.res.ok THEN q.res ELSE p.res] :
                      q \in and_then(p, MAX_PERF_PCT,
                                     set_max_perf_pct(p.fs, v.max_perf_pct))} :
                   p \in s1}
  IN  UNION {{[q EXCEPT !.res = IF p.res.ok THEN q.res ELSE p.res] :
                q \in and_then(p, NO_TURBO, set_no_turbo(p.fs, v.no_turbo))} :
             p \in s2}

(* PState::set_values, lib.rs:185-193: the outcomes [res, fs, calls], calls
   being the setters run, in order, each with its own result *)
set_values(fs, v) ==
  LET s0 == IF v.hwp_dynamic_boost # <<>>
            THEN and_then([calls |-> <<>>], HWP_DYNAMIC_BOOST,
                          set_hwp_dynamic_boost(fs, v.hwp_dynamic_boost[1]))
            ELSE {[res |-> Ok(<<>>), fs |-> fs, calls |-> <<>>]}
      s1 == UNION {and_then(p, MIN_PERF_PCT, set_min_perf_pct(p.fs, v.min_perf_pct)) :
                   p \in s0}
      s2 == UNION {IF ~p.res.ok THEN {p}
                   ELSE and_then(p, MAX_PERF_PCT, set_max_perf_pct(p.fs, v.max_perf_pct)) :
                   p \in s1}
  IN  UNION {IF ~p.res.ok THEN {p}
             ELSE and_then(p, NO_TURBO, set_no_turbo(p.fs, v.no_turbo)) : p \in s2}

----------------------------------------------------------------------------
(* The calls a client makes.  last records the most recent call: its name,
   its arguments, its result and, for set_values, the setters it ran. *)

Call(op, arg, res, calls) == [op |-> op, arg |-> arg, res |-> res, calls |-> calls]

Getters == {"hwp_dynamic_boost", "min_perf_pct", "max_perf_pct", "no_turbo", "values"}

Setters == {"set_hwp_dynamic_boost", "set_min_perf_pct", "set_max_perf_pct",
            "set_no_turbo"}

(* the field a per-field call is about *)
FieldOf(op) ==
  CASE op \in {"hwp_dynamic_boost", "set_hwp_dynamic_boost"} -> HWP_DYNAMIC_BOOST
    [] op \in {"min_perf_pct", "set_min_perf_pct"} -> MIN_PERF_PCT
    [] op \in {"max_perf_pct", "set_max_perf_pct"} -> MAX_PERF_PCT
    [] op \in {"no_turbo", "set_no_turbo"} -> NO_TURBO

New ==
  /\ pstate' = (pstate \/ new(dir).ok)
  /\ last' = Call("new", <<>>, new(dir), <<>>)
  /\ UNCHANGED <<dir, files>>

Get(op, res) ==
  /\ pstate
  /\ last' = Call(op, <<>>, res, <<>>)
  /\ UNCHANGED <<dir, pstate, files>>

HwpDynamicBoost == Get("hwp_dynamic_boost", hwp_dynamic_boost(files))

MinPerfPct == Get("min_perf_pct", min_perf_pct(files))

MaxPerfPct == Get("max_perf_pct", max_perf_pct(files))

NoTurbo == Get("no_turbo", no_turbo(files))

Values == Get("values", values(files))

Set(op, arg, outcomes) ==
  /\ pstate
  /\ \E o \in outcomes :
       /\ files' = o.fs
       /\ last' = Call(op, <<arg>>, o.res, <<>>)
  /\ UNCHANGED <<dir, pstate>>

SetHwpDynamicBoost(boost) ==
  Set("set_hwp_dynamic_boost", boost, set_hwp_dynamic_boost(files, boost))

SetMinPerfPct(min) == Set("set_min_perf_pct", min, set_min_perf_pct(files, min))

SetMaxPerfPct(max) == Set("set_max_perf_pct", max, set_max_perf_pct(files, max))

SetNoTurbo(b) == Set("set_no_turbo", b, set_no_turbo(files, b))

SetValues(v) ==
  /\ pstate
  /\ \E o \in set_values(files, v) :
       /\ files' = o.fs
       /\ last' = Call("set_values", <<v>>, o.res, o.calls)
  /\ UNCHANGED <<dir, pstate>>

----------------------------------------------------------------------------
(* The whole interface, on a directory of sample files *)

Str(a, b, c, d) == SelectSeq(<<a, b, c, d>>, LAMBDA x : x # "")

(* what a parameter file may look like when the client starts: missing
   (creatable or not), a value with its newline, a read-only value, an
   unreadable file, and text that is no number *)
SampleFiles ==
  {Absent("rw"), Absent("none"),
   File("rw", Str("1", "0", "0", "\n")),
   File("r", Str("1", "", "", "")),
   File("none", Str("0", "", "", "")),
   File("rw", Str("a", "b", "c", ""))}

U8Inputs == {7, 42}

Options == {<<>>, <<TRUE>>, <<FALSE>>}

(* the bundles given to set_values: every boost option and no_turbo, with
   distinct percentages so that a value in the wrong file shows *)
BundleInputs == {PStateValues(b, 7, 42, nt) : b \in Options, nt \in BOOLEAN}

NoCall == Call("", <<>>, Ok(<<>>), <<>>)

Init ==
  /\ dir \in DirKinds
  /\ pstate = FALSE
  /\ files \in IF dir = "dir" THEN [Fields -> SampleFiles]
               ELSE {[f \in Fields |-> Absent("none")]}
  /\ last = NoCall

Next ==
  \/ New
  \/ HwpDynamicBoost
  \/ MinPerfPct
  \/ MaxPerfPct
  \/ NoTurbo
  \/ Values
  \/ \E b \in BOOLEAN : SetHwpDynamicBoost(b)
  \/ \E v \in U8Inputs : SetMinPerfPct(v)
  \/ \E v \in U8Inputs : SetMaxPerfPct(v)
  \/ \E b \in BOOLEAN : SetNoTurbo(b)
  \/ \E v \in BundleInputs : SetValues(v)

Spec == Init /\ [][Next]_vars

----------------------------------------------------------------------------
(* A set followed by a get of the same field, for every value of the
   argument: the client constructs the handle, calls one setter and then
   the getter of that field.  All four files of the fixture start as the
   same sample file. *)

InitRT ==
  /\ dir = "dir"
  /\ pstate = FALSE
  /\ files \in {[f \in Fields |-> x] : x \in SampleFiles}
  /\ last = NoCall

Constructed == last.op = "new" /\ last.res.ok

NextRT ==
  \/ last.op = "" /\ New
  \/ Constructed /\ \E b \in BOOLEAN : SetHwpDynamicBoost(b)
  \/ Constructed /\ \E v \in U8 : SetMinPerfPct(v)
  \/ Constructed /\ \E v \in U8 : SetMaxPerfPct(v)
  \/ Constructed /\ \E b \in BOOLEAN : SetNoTurbo(b)
  \/ last.op = "set_hwp_dynamic_boost" /\ HwpDynamicBoost
  \/ last.op = "set_min_perf_pct" /\ MinPerfPct
  \/ last.op = "set_max_perf_pct" /\ MaxPerfPct
  \/ last.op = "set_no_turbo" /\ NoTurbo

SpecRT == InitRT /\ [][NextRT]_vars

----------------------------------------------------------------------------
(* The getters on arbitrary file contents: one file of the directory holds
   any text of at most MaxLen characters (or is missing, or unreadable),
   the others hold "1". *)

MaxLen == 3

Alphabet == {"0", "1", "2", "5", "6", "+", "a", "\n", BadByte}

Texts == UNION {[1..k -> Alphabet] : k \in 0..MaxLen}

ProbeFiles ==
  {Absent("none"), File("none", Str("1", "", "", "")), File("r", Str("a", "b", "c", ""))}
  \cup {File("r", t) : t \in Texts}

InitGet ==
  /\ dir = "dir"
  /\ pstate = FALSE
  /\ files \in {[g \in Fields |-> IF g = f THEN x ELSE File("r", Str("1", "", "", ""))] :
                  f \in Fields, x \in ProbeFiles}
  /\ last = NoCall

NextGet ==
  \/ New
  \/ HwpDynamicBoost
  \/ MinPerfPct
  \/ MaxPerfPct
  \/ NoTurbo
  \/ Values

SpecGet == InitGet /\ [][NextGet]_vars

----------------------------------------------------------------------------
(* What the properties below say about texts, stated without the code's
   formatting and parsing *)

(* the decimal numeral of a value below 1000 *)
Decimal(v) ==
  IF v < 10 THEN <<Digits[v + 1]>>
  ELSE IF v < 100 THEN <<Digits[(v \div 10) + 1], Digits[(v % 10) + 1]>>
  ELSE <<Digits[(v \div 100) + 1], Digits[((v \div 10) % 10) + 1], Digits[(v % 10) + 1]>>

Zeros(k) == [i \in 1..k |-> "0"]

Unsigned(t) == IF t # <<>> /\ t[1] = "+" THEN Tail(t) ELSE t

AllDigits(t) == t # <<>> /\ \A i \in 1..Len(t) : t[i] \in DigitChars

(* the u8 a text denotes, as an Option: an optional "+", then a decimal
   numeral of a value in 0..255 with any number of leading zeros *)
U8Of(t) ==
  LET u == Unsigned(t)
      vs == IF AllDigits(u)
            THEN {v \in U8 : \E k \in 0..Len(u) : u = Zeros(k) \o Decimal(v)}
            ELSE {}
  IN  IF vs = {} THEN <<>> ELSE <<CHOOSE v \in vs : TRUE>>

(* the file can be read as text *)
Readable(f) ==
  /\ f.exists
  /\ f.access # "none"
  /\ \A i \in 1..Len(f.text) : f.text[i] # BadByte

(* the file holds a u8 *)
Valid(f) == Readable(f) /\ U8Of(trim(f.text)) # <<>>

NumberIn(f) == U8Of(trim(f.text))[1]

IsGetValue(res, field) ==
  ~res.ok /\ res.err.kind = "GetValue" /\ res.err.src = field

HundredLine == Str("1", "0", "0", "\n")

----------------------------------------------------------------------------
(* C1: round trip of the integer fields.  When set_min_perf_pct(v) (or
   set_max_perf_pct(v)) has returned Ok, whatever the file held before, and
   the next call is the getter of that field, the getter returns Ok(v). *)
C1_RoundTrip ==
  [][/\ (last.op = "set_min_perf_pct" /\ last.res.ok /\ last'.op = "min_perf_pct")
          => (last'.res.ok /\ last'.res.val = last.arg[1])
     /\ (last.op = "set_max_perf_pct" /\ last.res.ok /\ last'.op = "max_perf_pct")
          => (last'.res.ok /\ last'.res.val = last.arg[1])]_vars

(* max_perf_pct() has returned 255 in a fixture whose files all held the
   longer text "100\n" before set_max_perf_pct(255) *)
C1_Witness ==
  /\ last.op = "max_perf_pct"
  /\ last.res.ok
  /\ last.res.val = 255
  /\ files[MIN_PERF_PCT].text = HundredLine

(* C2, amended: on a readable no_turbo file, no_turbo() returns Ok(true)
   for "1" and Ok(false) for "0"; for any other trimmed content it returns
   Ok(n > 0) when the content is a u8 numeral n (so "2" and "255" give
   Ok(true)) and a GetValue error for no_turbo only when it is none. *)
C2_NoTurboNonZero ==
  (last.op = "no_turbo" /\ Readable(files[NO_TURBO])) =>
    LET t == trim(files[NO_TURBO].text)
        n == U8Of(t)
    IN  /\ t = <<"1">> => (last.res.ok /\ last.res.val = TRUE)
        /\ t = <<"0">> => (last.res.ok /\ last.res.val = FALSE)
        /\ n # <<>> => (last.res.ok /\ last.res.val = (n[1] > 0))
        /\ n = <<>> => IsGetValue(last.res, NO_TURBO)

(* no_turbo() has returned Ok(true) on a file holding "2" *)
C2_Witness ==
  /\ last.op = "no_turbo"
  /\ files[NO_TURBO] = File("r", <<"2">>)
  /\ last.res.ok
  /\ last.res.val = TRUE

(* C2 as claimed: on a readable no_turbo file, no_turbo() returns Ok(true)
   for "1", Ok(false) for "0" and a GetValue error for every other trimmed
   content *)
C2_AsClaimed ==
  (last.op = "no_turbo" /\ Readable(files[NO_TURBO])) =>
    LET t == trim(files[NO_TURBO].text)
    IN  /\ t = <<"1">> => (last.res.ok /\ last.res.val = TRUE)
        /\ t = <<"0">> => (last.res.ok /\ last.res.val = FALSE)
        /\ t \notin {<<"0">>, <<"1">>} => IsGetValue(last.res, NO_TURBO)

(* C3: after a setter has returned Ok, its file exists and holds exactly
   the canonical text of the argument, "1" or "0" for the two bool fields
   and the decimal numeral for the two u8 fields, whatever it held before *)
C3_ExactContents ==
  (last.op \in Setters /\ last.res.ok) =>
    LET f == files[FieldOf(last.op)]
    IN  /\ f.exists
        /\ f.text = IF last.op \in {"set_no_turbo", "set_hwp_dynamic_boost"}
                    THEN (IF last.arg[1] THEN <<"1">> ELSE <<"0">>)
                    ELSE Decimal(last.arg[1])

(* set_no_turbo(true) has returned Ok in a fixture whose files all held
   "100\n": no_turbo holds "1" and nothing more *)
C3_Witness ==
  /\ last.op = "set_no_turbo"
  /\ last.res.ok
  /\ last.arg[1] = TRUE
  /\ files[NO_TURBO].text = <<"1">>
  /\ files[MIN_PERF_PCT].text = HundredLine

(* C4: min_perf_pct(), max_perf_pct() and no_turbo() on a file that is
   missing, unreadable or, trimmed, no u8 numeral return a GetValue error
   naming the field asked for, never an Ok *)
C4_GetFails ==
  (last.op \in {"min_perf_pct", "max_perf_pct", "no_turbo"}
     /\ ~Valid(files[FieldOf(last.op)]))
    => IsGetValue(last.res, FieldOf(last.op))

(* min_perf_pct() has failed on a file holding "256" *)
C4_Witness ==
  /\ last.op = "min_perf_pct"
  /\ files[MIN_PERF_PCT] = File("r", <<"2", "5", "6">>)
  /\ ~last.res.ok

(* C5: hwp_dynamic_boost() returns Ok(None) whenever its file does not
   exist; values() on a directory without that file and with valid
   min_perf_pct, max_perf_pct and no_turbo files returns Ok with
   hwp_dynamic_boost = None and the other fields as the files say; when
   the file exists, hwp_dynamic_boost() reads it, and a read or parse
   failure is a GetValue error for hwp_dynamic_boost, not None. *)
C5_OptionalField ==
  LET boost == files[HWP_DYNAMIC_BOOST]
      min == files[MIN_PERF_PCT]
      max == files[MAX_PERF_PCT]
      nt == files[NO_TURBO]
  IN  /\ (last.op = "hwp_dynamic_boost" /\ ~boost.exists)
           => (last.res.ok /\ last.res.val = <<>>)
      /\ (last.op = "hwp_dynamic_boost" /\ boost.exists /\ ~Valid(boost))
           => IsGetValue(last.res, HWP_DYNAMIC_BOOST)
      /\ (last.op = "hwp_dynamic_boost" /\ Valid(boost))
           => (last.res.ok /\ last.res.val = <<NumberIn(boost) = 1>>)
      /\ (last.op = "values" /\ ~boost.exists /\ Valid(min) /\ Valid(max) /\ Valid(nt))
           => /\ last.res.ok
              /\ last.res.val.hwp_dynamic_boost = <<>>
              /\ last.res.val.min_perf_pct = NumberIn(min)
              /\ last.res.val.max_perf_pct = NumberIn(max)
              /\ last.res.val.no_turbo = (NumberIn(nt) > 0)

(* values() has returned Ok without a boost value on a directory that has
   no hwp_dynamic_boost file *)
C5_Witness ==
  /\ last.op = "values"
  /\ ~files[HWP_DYNAMIC_BOOST].exists
  /\ last.res.ok
  /\ last.res.val.hwp_dynamic_boost = <<>>
  /\ last.res.val.min_perf_pct = 100

Mandatory == <<MIN_PERF_PCT, MAX_PERF_PCT, NO_TURBO>>

(* C6: in set_values(b) a failure of set_hwp_dynamic_boost neither fails
   the call nor stops it: set_min_perf_pct is always run; the mandatory
   setters run in the order min_perf_pct, max_perf_pct, no_turbo up to the
   first that fails, whose SetValue error is returned unchanged; the call
   returns Ok exactly when all three have succeeded. *)
C6_SwallowsOnlyBoost ==
  last.op = "set_values" =>
    LET c == last.calls
        off == IF last.arg[1].hwp_dynamic_boost # <<>> THEN 1 ELSE 0
        m == SubSeq(c, off + 1, Len(c))
    IN  /\ off = 1 => (Len(c) >= 1 /\ c[1].field = HWP_DYNAMIC_BOOST)
        /\ Len(m) \in 1..3
        /\ \A i \in 1..Len(m) : m[i].field = Mandatory[i]
        /\ \A i \in 1..(Len(m) - 1) : m[i].res.ok
        /\ last.res.ok <=> (Len(m) = 3 /\ \A i \in 1..3 : m[i].res.ok)
        /\ ~m[Len(m)].res.ok =>
             /\ ~last.res.ok
             /\ last.res.err = m[Len(m)].res.err
             /\ last.res.err.kind = "SetValue"
             /\ last.res.err.src = m[Len(m)].field

(* set_values has returned Ok although its set_hwp_dynamic_boost failed *)
C6_Witness ==
  /\ last.op = "set_values"
  /\ last.arg[1].hwp_dynamic_boost # <<>>
  /\ ~last.calls[1].res.ok
  /\ last.res.ok

(* C7: values() returns the error of the first getter that fails, in the
   order min_perf_pct, max_perf_pct, no_turbo, hwp_dynamic_boost, exactly
   as that getter returns it, and Ok only when all four succeed. *)
C7_FirstFailure ==
  last.op = "values" =>
    LET gets == <<min_perf_pct(files), max_perf_pct(files), no_turbo(files),
                  hwp_dynamic_boost(files)>>
        failing == {i \in 1..4 : ~gets[i].ok}
    IN  IF failing = {} THEN last.res.ok
        ELSE LET k == CHOOSE i \in failing : \A j \in failing : i <= j
             IN  ~last.res.ok /\ last.res.err = gets[k].err

(* values() has reported max_perf_pct although hwp_dynamic_boost and
   no_turbo would fail too *)
C7_Witness ==
  /\ last.op = "values"
  /\ ~last.res.ok
  /\ last.res.err.src = MAX_PERF_PCT
  /\ ~no_turbo(files).ok
  /\ ~hwp_dynamic_boost(files).ok

(* C8: new() returns Err(NotFound) when the base path is absent or is not
   a directory and Ok when it is a directory, whatever the parameter files
   in it are; it returns no other error. *)
C8_NewNotFound ==
  last.op = "new" =>
    /\ dir \in {"absent", "file"} => (~last.res.ok /\ last.res.err.kind = "NotFound")
    /\ dir = "dir" => last.res.ok

(* new() has returned Ok on a directory none of whose parameter files can
   be read as a number *)
C8_Witness ==
  /\ last.op = "new"
  /\ last.res.ok
  /\ \A f \in Fields : ~Valid(files[f])

Order == <<HWP_DYNAMIC_BOOST, MIN_PERF_PCT, MAX_PERF_PCT, NO_TURBO>>

Pos(field) == CHOOSE i \in 1..4 : Order[i] = field

BundleText(b, field) ==
  CASE field = HWP_DYNAMIC_BOOST -> (IF b.hwp_dynamic_boost[1] THEN <<"1">> ELSE <<"0">>)
    [] field = MIN_PERF_PCT -> Decimal(b.min_perf_pct)
    [] field = MAX_PERF_PCT -> Decimal(b.max_perf_pct)
    [] field = NO_TURBO -> (IF b.no_turbo THEN <<"1">> ELSE <<"0">>)

(* C9: when set_values(b) fails at the setter of field f, the mandatory
   fields before f, and hwp_dynamic_boost if b has it and its setter
   succeeded, hold b's value, and every field after f holds what it held
   before the call: nothing is rolled back, nothing later is written. *)
C9_NoRollback ==
  [][(last'.op = "set_values" /\ ~last'.res.ok) =>
       LET b == last'.arg[1]
           f == last'.res.err.src
       IN  /\ \A g \in Fields \ {HWP_DYNAMIC_BOOST} :
                Pos(g) < Pos(f) =>
                  (files'[g].exists /\ files'[g].text = BundleText(b, g))
           /\ (b.hwp_dynamic_boost # <<>> /\ last'.calls[1].res.ok) =>
                /\ files'[HWP_DYNAMIC_BOOST].exists
                /\ files'[HWP_DYNAMIC_BOOST].text = BundleText(b, HWP_DYNAMIC_BOOST)
           /\ \A g \in Fields : Pos(g) > Pos(f) => files'[g] = files[g]]_vars

(* set_values has failed at max_perf_pct: min_perf_pct holds the bundle's
   7, no_turbo still holds its old "100\n" *)
C9_Witness ==
  /\ last.op = "set_values"
  /\ ~last.res.ok
  /\ last.res.err.src = MAX_PERF_PCT
  /\ files[MIN_PERF_PCT].text = <<"7">>
  /\ files[NO_TURBO].text = HundredLine

(* C10: a per-field setter changes no file but its own; a getter, values()
   included, changes no file; set_values(b) with b.hwp_dynamic_boost = None
   leaves the hwp_dynamic_boost file as it is, absent if it was absent. *)
C10_Frame ==
  [][/\ last'.op \in Setters =>
          \A g \in Fields \ {FieldOf(last'.op)} : files'[g] = files[g]
     /\ last'.op \in Getters => files' = files
     /\ (last'.op = "set_values" /\ last'.arg[1].hwp_dynamic_boost = <<>>) =>
          files'[HWP_DYNAMIC_BOOST] = files[HWP_DYNAMIC_BOOST]]_vars

(* set_max_perf_pct(42) has succeeded and min_perf_pct still holds "100\n";
   the hwp_dynamic_boost file is still absent *)
C10_Witness ==
  /\ last.op = "set_max_perf_pct"
  /\ last.res.ok
  /\ files[MAX_PERF_PCT].text = <<"4", "2">>
  /\ files[MIN_PERF_PCT].text = HundredLine
  /\ ~files[HWP_DYNAMIC_BOOST].exists

====
